---- MODULE Spec2Model ----
(***************************************************************************)
(* A model of muda's launch scheduler (parallel_for), its graph node       *)
(* descriptor builder (parallel_for::asNodeParms), the device scalar       *)
(* wrappers (DeviceVar, details::var_base) and GraphViewer::launch.        *)
(***************************************************************************)
EXTENDS Integers, Sequences, FiniteSets, Bags, TLC

\* ------------------------------------------------------------------ bounds
MaxAbs == 2         \* begin and end are drawn from -MaxAbs..MaxAbs
MaxStep == 2        \* step is drawn from -MaxStep..MaxStep
MaxGrid == 2        \* configured gridDim is drawn from -1..MaxGrid
MaxBlock == 2       \* configured blockDim is drawn from 1..MaxBlock
MaxK == 6           \* a grid-stride thread is followed while its k <= MaxK
MaxBuilds == 2      \* number of asNodeParms calls of one run
MaxVars == 2        \* number of scalar objects of one run
MaxAllocs == 3      \* number of allocations of one run
MaxVal == 1         \* scalar values are drawn from 0..MaxVal
MaxLaunches == 2    \* number of GraphViewer launches of one run

\* ------------------------------------------------- C++ integer arithmetic
\* int is 32 bits wide: the parameters of checkInput, calculateGridDim
INT_MAX == 2147483647
\* unsigned int (the type of blockIdx.x * blockDim.x + threadIdx.x) is kept
\* as two 16-bit halves <<hi, lo>>, value hi * 65536 + lo
HalfWord == 65536

Abs(x) == IF x < 0 THEN 0 - x ELSE x

Sign(x) == IF x < 0 THEN 0 - 1 ELSE IF x > 0 THEN 1 ELSE 0

\* C++ integer division truncates toward zero
CDiv(a, b) == Sign(a) * Sign(b) * (Abs(a) \div Abs(b))

\* C++ remainder has the sign of the dividend
CRem(a, b) == Sign(a) * (Abs(a) % Abs(b))

\* a - b does not fit int: signed overflow, undefined behaviour
SubOverflows(a, b) ==
    \/ b < 0 /\ a > INT_MAX + b
    \/ b > 0 /\ a < (0 - INT_MAX - 1) + b

\* a * b does not fit int: signed overflow, undefined behaviour
MulOverflows(a, b) ==
    /\ a # 0
    /\ b # 0
    /\ IF Sign(a) = Sign(b)
       THEN Abs(a) > INT_MAX \div Abs(b)
       ELSE /\ Abs(a) > INT_MAX \div Abs(b)
            /\ ~(/\ Abs(a) = (INT_MAX \div Abs(b)) + 1
                 /\ INT_MAX % Abs(b) = Abs(b) - 1)

\* conversion int -> unsigned int (modulo 2^32) of the mathematical value x
ToUnsigned(x) == <<(x \div HalfWord) % HalfWord, x % HalfWord>>

\* conversion unsigned int -> int (the argument of f(i)), modulo 2^32
ToInt(u) ==
    IF u[1] >= HalfWord \div 2
    THEN (u[1] - HalfWord) * HalfWord + u[2]
    ELSE u[1] * HalfWord + u[2]

\* i < end on unsigned operands
ULess(u, v) == u[1] < v[1] \/ (u[1] = v[1] /\ u[2] < v[2])

\* --------------------------------------------------------------- state
VARIABLES
    cfg,        \* parallel_for: [gridDim, blockDim, sharedMemSize]
    req,        \* the range the client passes: [begin, end, step]
    applied,    \* apply(): "no" (not called), "ok" (returned), "thrown"
    issued,     \* the kernel launch apply() issued, or NoLaunch
    built,      \* asNodeParms(): number of calls that threw
    nodes,      \* the descriptors asNodeParms() returned, in order
    replayed,   \* number of descriptors the graph has replayed
    stream,     \* kernel launches issued to the stream, not yet started
    running,    \* the kernel the device executes, or NoLaunch
    threads,    \* running kernel: tid -> [k, done]
    calls,      \* running kernel: bag of the indices f was invoked with
    vars_,      \* scalar objects: slot -> [cls, st, ptr]
    heap,       \* allocations: id -> [val, live, frees]
    written,    \* slot -> the value last written through that scalar
    lastRead,   \* the last conversion to a host value: [slot, val] or NoRead
    gvTrace     \* GraphViewer: the outcomes of the launches so far

vars == <<cfg, req, applied, issued, built, nodes, replayed, stream, running,
          threads, calls, vars_, heap, written, lastRead, gvTrace>>

launchVars == <<cfg, req, applied, issued, built, nodes, replayed, stream,
                running, threads, calls>>

scalarVars == <<vars_, heap, written, lastRead>>

NoLaunch == [kernel |-> "none"]

NoRead == [slot |-> 0, val |-> 0]

\* the callable the client passes
TheCallable == "f"

\* ---------------------------------------------------- launch scheduler
\* parallel_for(blockDim, ...) sets gridDim = 0; parallel_for(gridDim,
\* blockDim, ...) takes any gridDim
Configs ==
    [gridDim : (0 - 1)..MaxGrid, blockDim : 1..MaxBlock, sharedMemSize : {0, 64}]

\* the worked example of the grid dimension formula: blockDim = 4 over [0, 10)
ExampleConfig == [gridDim |-> 0, blockDim |-> 4, sharedMemSize |-> 0]

ExampleRange == [begin |-> 0, end |-> 10, step |-> 1]

\* ranges whose step * (end - begin) does not fit int
LargeRanges ==
    {[begin |-> 0, end |-> 50000, step |-> 50000],
     [begin |-> 0, end |-> 0 - 50000, step |-> 0 - 50000]}

Ranges ==
    [begin : (0 - MaxAbs)..MaxAbs, end : (0 - MaxAbs)..MaxAbs,
     step : (0 - MaxStep)..MaxStep] \cup LargeRanges

\* static void checkInput(int begin, int end, int step): the set of outcomes
\* ("throw": std::logic_error, "pass": returns); signed overflow in
\* end - begin or in step * (end - begin) is undefined behaviour
checkInput(begin, end, step) ==
    IF step = 0 THEN {"throw"}
    ELSE IF SubOverflows(end, begin) THEN {"throw", "pass"}
    ELSE IF MulOverflows(step, end - begin) THEN {"throw", "pass"}
    ELSE IF step * (end - begin) < 0 THEN {"throw"}
    ELSE {"pass"}

\* calculateGridDim with the first remainder tested > 0 instead of != 0
calculateGridDimPositiveRemainder(blockDim, begin, end, step) ==
    LET stride == end - begin
        nMinthread == CDiv(stride, step)
                      + (IF CRem(stride, step) > 0 THEN 1 ELSE 0)
        nMinblocks == CDiv(nMinthread, blockDim)
                      + (IF CRem(nMinthread, blockDim) > 0 THEN 1 ELSE 0)
    IN  nMinblocks

\* int calculateGridDim(int begin, int end, int step), blockDim a member
calculateGridDim(blockDim, begin, end, step) ==
    LET stride == end - begin
        nMinthread == CDiv(stride, step)
                      + (IF CRem(stride, step) # 0 THEN 1 ELSE 0)
        nMinblocks == CDiv(nMinthread, blockDim)
                      + (IF CRem(nMinthread, blockDim) > 0 THEN 1 ELSE 0)
    IN  nMinblocks

\* kernel<<<gridDim, blockDim, sharedMemSize, stream_>>>(f, begin, end, step)
Launch(kernel, gridDim, blockDim, sharedMem, f, begin, end, step, origin) ==
    [kernel |-> kernel, gridDim |-> gridDim, blockDim |-> blockDim,
     sharedMem |-> sharedMem, f |-> f, begin |-> begin, end |-> end,
     step |-> step, origin |-> origin]

\* apply without the begin != end guard of the bounded branch
applyDispatchAlways(c, begin, end, step, f) ==
    IF c.gridDim <= 0
    THEN Launch("parallelForKernel",
                calculateGridDim(c.blockDim, begin, end, step),
                c.blockDim, c.sharedMemSize, f, begin, end, step, "apply")
    ELSE Launch("gridStrideLoopKernel", c.gridDim, c.blockDim,
                c.sharedMemSize, f, begin, end, step, "apply")

\* parallel_for::apply after checkInput returned: the launch it issues
applyDispatch(c, begin, end, step, f) ==
    IF c.gridDim <= 0
    THEN IF begin # end
         THEN Launch("parallelForKernel",
                     calculateGridDim(c.blockDim, begin, end, step),
                     c.blockDim, c.sharedMemSize, f, begin, end, step, "apply")
         ELSE NoLaunch
    ELSE Launch("gridStrideLoopKernel", c.gridDim, c.blockDim,
                c.sharedMemSize, f, begin, end, step, "apply")

\* parallel_for& apply(int begin, int end, int step, F&& f)
Apply ==
    /\ applied = "no"
    /\ \E outcome \in checkInput(req.begin, req.end, req.step) :
          IF outcome = "throw"
          THEN /\ applied' = "thrown"
               /\ UNCHANGED <<issued, stream>>
          ELSE LET l == applyDispatch(cfg, req.begin, req.end, req.step,
                                      TheCallable)
               IN  /\ applied' = "ok"
                   /\ issued' = l
                   /\ stream' = IF l = NoLaunch THEN stream
                                ELSE Append(stream, l)
    /\ UNCHANGED <<cfg, req, built, nodes, replayed, running, threads, calls>>
    /\ UNCHANGED <<scalarVars, gvTrace>>

\* ------------------------------------------- graph node descriptor builder
\* kernelData(int begin, int step, int end, U&& callable)
kernelData(begin, step, end, callable) ==
    [begin |-> begin, step |-> step, end |-> end, callable |-> callable]

\* the address of a field of the payload of descriptor id
Addr(id, fld) == [obj |-> id, field |-> fld]

\* the layout in the order of kernelData's constructor: begin, step, end
parseLayoutCtorOrder(p) ==
    <<Addr(p, "callable"), Addr(p, "begin"), Addr(p, "step"), Addr(p, "end")>>

\* the lambda handed to parse(): {&p.callable, &p.begin, &p.end, &p.step}
parseLayout(p) ==
    <<Addr(p, "callable"), Addr(p, "begin"), Addr(p, "end"), Addr(p, "step")>>

\* kernelNodeParms<U>: constructed from the payload's constructor arguments
\* by make_shared, then func(), gridDim(), blockDim(), sharedMemBytes() and
\* parse(), which applies the layout to the descriptor's own payload
kernelNodeParms(id, payload, func, gridDim, blockDim, sharedMemBytes) ==
    [id |-> id, payload |-> payload, func |-> func, gridDim |-> gridDim,
     blockDim |-> blockDim, sharedMemBytes |-> sharedMemBytes,
     args |-> parseLayout(id)]

\* asNodeParms recording the grid-stride entry point in either mode
asNodeParmsGridStrideOnly(c, id, begin, end, step, f) ==
    kernelNodeParms(id, kernelData(begin, step, end, f),
                    "gridStrideLoopKernel", c.gridDim, c.blockDim,
                    c.sharedMemSize)

\* parallel_for::asNodeParms after checkInput returned: the descriptor
asNodeParms(c, id, begin, end, step, f) ==
    IF c.gridDim <= 0
    THEN kernelNodeParms(id, kernelData(begin, step, end, f),
                         "parallelForKernel",
                         calculateGridDim(c.blockDim, begin, end, step),
                         c.blockDim, c.sharedMemSize)
    ELSE kernelNodeParms(id, kernelData(begin, step, end, f),
                         "gridStrideLoopKernel", c.gridDim, c.blockDim,
                         c.sharedMemSize)

\* auto asNodeParms(int begin, int end, int step, F&& f)
AsNodeParms ==
    /\ built + Len(nodes) < MaxBuilds
    /\ \E outcome \in checkInput(req.begin, req.end, req.step) :
          IF outcome = "throw"
          THEN /\ built' = built + 1
               /\ UNCHANGED nodes
          ELSE /\ nodes' = Append(nodes,
                              asNodeParms(cfg, built + Len(nodes) + 1,
                                          req.begin, req.end, req.step,
                                          TheCallable))
               /\ UNCHANGED built
    /\ UNCHANGED <<cfg, req, applied, issued, replayed, stream, running,
                   threads, calls>>
    /\ UNCHANGED <<scalarVars, gvTrace>>

\* the parameter list of both entry points: (F f, int begin, int end, int step)
KernelParams == <<"f", "begin", "end", "step">>

\* the value an argument pointer of descriptor d points at
Deref(d, ptr) == IF ptr.obj = d.id THEN d.payload[ptr.field] ELSE "dangling"

\* a replay of descriptor d by the execution graph: the recorded entry point
\* is launched with the recorded shape, its parameters read through the
\* argument pointers in order
ReplayLaunch(d) ==
    Launch(d.func, d.gridDim, d.blockDim, d.sharedMemBytes,
           Deref(d, d.args[1]), Deref(d, d.args[2]), Deref(d, d.args[3]),
           Deref(d, d.args[4]), "graph")

GraphReplay ==
    /\ replayed < Len(nodes)
    /\ replayed' = replayed + 1
    /\ stream' = Append(stream, ReplayLaunch(nodes[replayed + 1]))
    /\ UNCHANGED <<cfg, req, applied, issued, built, nodes, running, threads,
                   calls>>
    /\ UNCHANGED <<scalarVars, gvTrace>>

\* ------------------------------------------------------------- kernels
\* the execution units of a launch: gridDim * blockDim threads
Units(l) == 0..(l.gridDim * l.blockDim - 1)

AllDone == \A t \in DOMAIN threads : threads[t].done

\* the stream starts its next kernel when the previous one has finished
KernelStart ==
    /\ running = NoLaunch
    /\ stream # <<>>
    /\ running' = Head(stream)
    /\ stream' = Tail(stream)
    /\ threads' = [t \in Units(Head(stream)) |-> [k |-> t, done |-> FALSE]]
    /\ calls' = EmptyBag
    /\ UNCHANGED <<cfg, req, applied, issued, built, nodes, replayed>>
    /\ UNCHANGED <<scalarVars, gvTrace>>

\* f(i): one invocation of the callable with int i
Invoke(i) == calls (+) SetToBag({i})

\* __global__ void parallelForKernel(F f, int begin, int end, int step):
\* tid is unsigned, so i is unsigned and i < end compares unsigned
parallelForKernel(tid) ==
    LET i == ToUnsigned(running.begin + running.step * tid)
    IN  /\ calls' = IF ULess(i, ToUnsigned(running.end))
                    THEN Invoke(ToInt(i)) ELSE calls
        /\ threads' = [threads EXCEPT ![tid].done = TRUE]

ParallelForThread ==
    /\ running.kernel = "parallelForKernel"
    /\ \E tid \in DOMAIN threads :
          /\ ~threads[tid].done
          /\ parallelForKernel(tid)
    /\ UNCHANGED <<cfg, req, applied, issued, built, nodes, replayed, stream,
                   running>>
    /\ UNCHANGED <<scalarVars, gvTrace>>

\* __global__ void gridStrideLoopKernel(F f, int begin, int end, int step):
\* one evaluation of the loop condition by thread tid, and the body if it
\* holds; k and i are unsigned
gridStrideLoopKernel(tid) ==
    LET k == threads[tid].k
        i == ToUnsigned(running.begin + running.step * k)
    IN  IF ULess(i, ToUnsigned(running.end))
        THEN /\ calls' = Invoke(ToInt(i))
             /\ threads' = [threads EXCEPT
                              ![tid].k = k + running.blockDim * running.gridDim]
        ELSE /\ calls' = calls
             /\ threads' = [threads EXCEPT ![tid].done = TRUE]

GridStrideStep ==
    /\ running.kernel = "gridStrideLoopKernel"
    /\ \E tid \in DOMAIN threads :
          /\ ~threads[tid].done
          /\ threads[tid].k <= MaxK
          /\ gridStrideLoopKernel(tid)
    /\ UNCHANGED <<cfg, req, applied, issued, built, nodes, replayed, stream,
                   running>>
    /\ UNCHANGED <<scalarVars, gvTrace>>

\* the running kernel ends when every thread has returned
KernelRetire ==
    /\ running # NoLaunch
    /\ AllDone
    /\ running' = NoLaunch
    /\ threads' = << >>
    /\ calls' = EmptyBag
    /\ UNCHANGED <<cfg, req, applied, issued, built, nodes, replayed, stream>>
    /\ UNCHANGED <<scalarVars, gvTrace>>

InitLaunch ==
    /\ \/ cfg \in Configs /\ req \in Ranges
       \/ cfg = ExampleConfig /\ req = ExampleRange
    /\ applied = "no"
    /\ issued = NoLaunch
    /\ built = 0
    /\ nodes = << >>
    /\ replayed = 0
    /\ stream = << >>
    /\ running = NoLaunch
    /\ threads = << >>
    /\ calls = EmptyBag

InitScalarIdle ==
    /\ vars_ = << >>
    /\ heap = << >>
    /\ written = << >>
    /\ lastRead = NoRead

Init ==
    /\ InitLaunch
    /\ InitScalarIdle
    /\ gvTrace = << >>

\* immediate dispatch: apply() and the kernels it launched on the stream
Next ==
    \/ Apply
    \/ KernelStart
    \/ ParallelForThread
    \/ GridStrideStep
    \/ KernelRetire

Spec == Init /\ [][Next]_vars

\* the host side: apply(), asNodeParms() and the graph's replays, each
\* issuing to the stream
NextNode ==
    \/ Apply
    \/ AsNodeParms
    \/ GraphReplay

SpecNode == Init /\ [][NextNode]_vars

\* ------------------------------------------ claims: the launch scheduler
\* step != 0 and the direction of step agrees with that of [begin, end)
ValidRange(r) ==
    \/ r.step > 0 /\ r.begin <= r.end
    \/ r.step < 0 /\ r.begin >= r.end

CeilDiv(a, b) == (a + b - 1) \div b

\* ceil((end - begin) / step) of a valid range
IterationCount(r) == CeilDiv(Abs(r.end - r.begin), Abs(r.step))

\* {begin, begin + step, ...} strictly before end in the step's direction
IterationDomain(r) ==
    {r.begin + r.step * n : n \in 0..(IterationCount(r) - 1)}

\* f was invoked at most once per index, and only inside the domain
CallsWithin(r) ==
    \A i \in DOMAIN calls : i \in IterationDomain(r) /\ calls[i] = 1

\* C1: for every valid range and blockDim > 0, a bounded dispatch by apply
\* invokes f exactly once for each index of the iteration domain and for no
\* other index.
C1_BoundedExactlyOnce ==
    (/\ running # NoLaunch
     /\ running.origin = "apply"
     /\ running.kernel = "parallelForKernel"
     /\ ValidRange(req))
    => /\ CallsWithin(req)
       /\ AllDone => calls = SetToBag(IterationDomain(req))

\* C2: for every valid range and unit count >= 1, a grid-stride dispatch by
\* apply invokes f exactly once per index of the iteration domain, never
\* outside it and never twice, in any interleaving of the units.
C2_GridStrideExactlyOnce ==
    (/\ running # NoLaunch
     /\ running.origin = "apply"
     /\ running.kernel = "gridStrideLoopKernel"
     /\ ValidRange(req))
    => /\ CallsWithin(req)
       /\ AllDone => calls = SetToBag(IterationDomain(req))

\* C3: apply and asNodeParms raise the invalid-range error exactly when
\* step == 0 or the sign of step disagrees with that of end - begin; when
\* they raise, no dispatch was issued and no descriptor produced; begin ==
\* end with a nonzero step is accepted.
C3_RaisesExactlyWhenInvalid ==
    /\ applied = "thrown" => ~ValidRange(req) /\ issued = NoLaunch
    /\ applied = "ok" => ValidRange(req)
    /\ built > 0 => ~ValidRange(req)
    /\ Len(nodes) > 0 => ValidRange(req)

\* the grid dimension the formula of the data model gives
GridDimOk(g) ==
    /\ g = CeilDiv(IterationCount(req), cfg.blockDim)
    /\ g >= 0
    /\ g * cfg.blockDim >= IterationCount(req)

C5_EmptyDomainNoDispatch ==
    (applied = "ok" /\ req.begin = req.end) => issued = NoLaunch

\* C5 as amended: on an empty domain apply issues no kernel launch in
\* bounded mode (gridDim <= 0); in grid-stride mode (gridDim > 0) it issues
\* exactly one launch, of the grid-stride kernel with the configured shape.
C5_EmptyDomainDispatch ==
    (applied = "ok" /\ req.begin = req.end)
    => IF cfg.gridDim <= 0
       THEN /\ issued = NoLaunch
            /\ \A n \in 1..Len(stream) : stream[n].origin # "apply"
            /\ running # NoLaunch => running.origin # "apply"
       ELSE /\ issued.kernel = "gridStrideLoopKernel"
            /\ issued.gridDim = cfg.gridDim
            /\ issued.blockDim = cfg.blockDim
            /\ issued.sharedMem = cfg.sharedMemSize

C5_Witness ==
    /\ applied = "ok"
    /\ req.begin = req.end
    /\ cfg.gridDim > 0
    /\ running = issued
    /\ running.kernel = "gridStrideLoopKernel"

\* the payload field an entry point parameter is passed from
ParamField(p) == IF p = "f" THEN "callable" ELSE p

\* C6: every descriptor's argument-pointer list has length 4: the addresses
\* of the callable, begin, end and step fields of the descriptor's own
\* payload, in the parameter order (f, begin, end, step) of its entry point.
C6_ArgumentPointers ==
    \A n \in 1..Len(nodes) :
        LET d == nodes[n]
        IN  /\ Len(d.args) = 4
            /\ Len(KernelParams) = 4
            /\ \A j \in 1..4 :
                  /\ d.args[j].obj = d.id
                  /\ d.args[j].field = ParamField(KernelParams[j])
            /\ \A m \in 1..Len(nodes) : m # n => nodes[m].id # d.id

C6_Witness ==
    /\ Len(nodes) = MaxBuilds
    /\ nodes[1].func = "parallelForKernel"
    /\ nodes[1].payload.step < 0

\* C10: for the same configuration and the same valid range, asNodeParms
\* records the dispatch apply issues: entry point, grid and block dimension,
\* shared memory size and the begin, end, step arguments; when apply issues
\* no dispatch, the replay of the descriptor runs no unit.
C10_DescriptorMatchesApply ==
    (applied = "ok")
    => \A n \in 1..Len(nodes) :
          LET r == ReplayLaunch(nodes[n])
          IN  /\ nodes[n].func = IF cfg.gridDim <= 0
                                 THEN "parallelForKernel"
                                 ELSE "gridStrideLoopKernel"
              /\ r.begin = req.begin /\ r.end = req.end /\ r.step = req.step
              /\ r.f = TheCallable
              /\ IF issued # NoLaunch
                 THEN [r EXCEPT !.origin = "apply"] = issued
                 ELSE Units(r) = {}

C10_Witness ==
    /\ applied = "ok"
    /\ issued # NoLaunch
    /\ issued.kernel = "parallelForKernel"
    /\ Len(nodes) >= 1
    /\ replayed >= 1

\* ------------------------------------------------- device scalar and view
Slots == 1..MaxVars

Values == 0..MaxVal

\* written[s] of a scalar no value was written through
NoValue == 0 - 1

\* nullptr
Null == 0

Live(s) == vars_[s].st = "live"

\* one allocation of one element; uninitialized storage holds any value
Allocation(v) == [val |-> v, live |-> TRUE, frees |-> 0]

\* Memory().free / Allocator().deallocate of allocation p
Release(h, p) ==
    [h EXCEPT ![p].live = FALSE, ![p].frees = h[p].frees + 1]

\* BufferLaunch().copy(view, &val).wait(): storage <- host value
Store(h, p, v) == [h EXCEPT ![p].val = v]

\* the host values a transfer out of storage p can deliver: its content, or
\* anything once the storage has been released
Load(h, p) == IF h[p].live THEN {h[p].val} ELSE Values

Construct(s, cls, p) ==
    [vars_ EXCEPT ![s] = [cls |-> cls, st |-> "live", ptr |-> p]]

Unborn(s, cls) == vars_[s].st = "unborn" /\ vars_[s].cls = cls

Usable(s, cls) == Live(s) /\ vars_[s].cls = cls /\ vars_[s].ptr # Null

\* DeviceVar<T>::DeviceVar()
DeviceVarDefault ==
    \E s \in Slots, u \in Values :
        /\ Unborn(s, "DeviceVar")
        /\ Len(heap) < MaxAllocs
        /\ heap' = Append(heap, Allocation(u))
        /\ vars_' = Construct(s, "DeviceVar", Len(heap) + 1)
        /\ written' = [written EXCEPT ![s] = NoValue]
        /\ UNCHANGED <<lastRead, launchVars, gvTrace>>

\* DeviceVar<T>::DeviceVar(const T& value)
DeviceVarFromValue ==
    \E s \in Slots, v \in Values :
        /\ Unborn(s, "DeviceVar")
        /\ Len(heap) < MaxAllocs
        /\ heap' = Append(heap, Allocation(v))
        /\ vars_' = Construct(s, "DeviceVar", Len(heap) + 1)
        /\ written' = [written EXCEPT ![s] = v]
        /\ UNCHANGED <<lastRead, launchVars, gvTrace>>

\* DeviceVar<T>::DeviceVar(const DeviceVar& other)
DeviceVarCopyCtor ==
    \E s \in Slots, o \in Slots :
        /\ Unborn(s, "DeviceVar")
        /\ Usable(o, "DeviceVar")
        /\ Len(heap) < MaxAllocs
        /\ \E v \in Load(heap, vars_[o].ptr) :
              /\ heap' = Append(heap, Allocation(v))
              /\ written' = [written EXCEPT ![s] = v]
        /\ vars_' = Construct(s, "DeviceVar", Len(heap) + 1)
        /\ UNCHANGED <<lastRead, launchVars, gvTrace>>

\* DeviceVar<T>& DeviceVar<T>::operator=(const DeviceVar<T>& other)
DeviceVarCopyAssign ==
    \E s \in Slots, o \in Slots :
        /\ Usable(s, "DeviceVar")
        /\ Usable(o, "DeviceVar")
        /\ IF s = o
           THEN UNCHANGED <<heap, written>>
           ELSE \E v \in Load(heap, vars_[o].ptr) :
                   /\ heap' = Store(heap, vars_[s].ptr, v)
                   /\ written' = [written EXCEPT ![s] = v]
        /\ UNCHANGED <<vars_, lastRead, launchVars, gvTrace>>

\* DeviceVar<T>::operator=(VarView<T> other) and copy_from(VarView<T> other)
DeviceVarAssignView ==
    \E s \in Slots, o \in Slots :
        /\ Usable(s, "DeviceVar")
        /\ Usable(o, "DeviceVar")
        /\ \E v \in Load(heap, vars_[o].ptr) :
              /\ heap' = Store(heap, vars_[s].ptr, v)
              /\ written' = [written EXCEPT ![s] = v]
        /\ UNCHANGED <<vars_, lastRead, launchVars, gvTrace>>

\* DeviceVar<T>& DeviceVar<T>::operator=(const T& val)
DeviceVarAssignValue ==
    \E s \in Slots, v \in Values :
        /\ Usable(s, "DeviceVar")
        /\ heap' = Store(heap, vars_[s].ptr, v)
        /\ written' = [written EXCEPT ![s] = v]
        /\ UNCHANGED <<vars_, lastRead, launchVars, gvTrace>>

\* DeviceVar<T>::DeviceVar(DeviceVar&& other): takes m_data, nulls other's
DeviceVarMoveCtor ==
    \E s \in Slots, o \in Slots :
        /\ Unborn(s, "DeviceVar")
        /\ Usable(o, "DeviceVar")
        /\ vars_' = [vars_ EXCEPT
                       ![s] = [cls |-> "DeviceVar", st |-> "live",
                               ptr |-> vars_[o].ptr],
                       ![o].ptr = Null]
        /\ written' = [written EXCEPT ![s] = written[o], ![o] = NoValue]
        /\ UNCHANGED <<heap, lastRead, launchVars, gvTrace>>

\* DeviceVar<T>::operator T() const
DeviceVarRead ==
    \E s \in Slots :
        /\ Usable(s, "DeviceVar")
        /\ \E v \in Load(heap, vars_[s].ptr) :
              lastRead' = [slot |-> s, val |-> v]
        /\ UNCHANGED <<vars_, heap, written, launchVars, gvTrace>>

\* DeviceVar<T>::~DeviceVar(): releases the allocation the scalar owns, none
\* when it was moved from
DeviceVarDestroy ==
    \E s \in Slots :
        /\ Live(s)
        /\ vars_[s].cls = "DeviceVar"
        /\ heap' = IF vars_[s].ptr # Null THEN Release(heap, vars_[s].ptr)
                   ELSE heap
        /\ vars_' = [vars_ EXCEPT ![s].st = "destroyed"]
        /\ UNCHANGED <<written, lastRead, launchVars, gvTrace>>

\* var_base() noexcept : m_data(Allocator().allocate(1))
VarBaseDefault ==
    \E s \in Slots, u \in Values :
        /\ Unborn(s, "var_base")
        /\ Len(heap) < MaxAllocs
        /\ heap' = Append(heap, Allocation(u))
        /\ vars_' = Construct(s, "var_base", Len(heap) + 1)
        /\ written' = [written EXCEPT ![s] = NoValue]
        /\ UNCHANGED <<lastRead, launchVars, gvTrace>>

\* var_base(const T& value): allocate(1), then operator=(value)
VarBaseFromValue ==
    \E s \in Slots, v \in Values :
        /\ Unborn(s, "var_base")
        /\ Len(heap) < MaxAllocs
        /\ heap' = Append(heap, Allocation(v))
        /\ vars_' = Construct(s, "var_base", Len(heap) + 1)
        /\ written' = [written EXCEPT ![s] = v]
        /\ UNCHANGED <<lastRead, launchVars, gvTrace>>

\* var_base declares no copy constructor: the implicit one copies m_data
VarBaseCopyCtor ==
    \E s \in Slots, o \in Slots :
        /\ Unborn(s, "var_base")
        /\ Usable(o, "var_base")
        /\ vars_' = Construct(s, "var_base", vars_[o].ptr)
        /\ written' = [written EXCEPT ![s] = written[o]]
        /\ UNCHANGED <<heap, lastRead, launchVars, gvTrace>>

\* var_base declares no copy assignment from var_base: the implicit one
\* copies m_data
VarBaseCopyAssign ==
    \E s \in Slots, o \in Slots :
        /\ Usable(s, "var_base")
        /\ Usable(o, "var_base")
        /\ vars_' = [vars_ EXCEPT ![s].ptr = vars_[o].ptr]
        /\ written' = [written EXCEPT ![s] = written[o]]
        /\ UNCHANGED <<heap, lastRead, launchVars, gvTrace>>

\* var_base& operator=(const T& rhs): thrust::fill_n(data(), 1, rhs)
VarBaseAssignValue ==
    \E s \in Slots, v \in Values :
        /\ Usable(s, "var_base")
        /\ heap' = Store(heap, vars_[s].ptr, v)
        /\ written' = [written EXCEPT ![s] = v]
        /\ UNCHANGED <<vars_, lastRead, launchVars, gvTrace>>

\* operator T(): thrust::copy_n(data(), 1, &t)
VarBaseRead ==
    \E s \in Slots :
        /\ Usable(s, "var_base")
        /\ \E v \in Load(heap, vars_[s].ptr) :
              lastRead' = [slot |-> s, val |-> v]
        /\ UNCHANGED <<vars_, heap, written, launchVars, gvTrace>>

\* ~var_base() noexcept { Allocator().deallocate(m_data, 1); }
VarBaseDestroy ==
    \E s \in Slots :
        /\ Live(s)
        /\ vars_[s].cls = "var_base"
        /\ heap' = Release(heap, vars_[s].ptr)
        /\ vars_' = [vars_ EXCEPT ![s].st = "destroyed"]
        /\ UNCHANGED <<written, lastRead, launchVars, gvTrace>>

InitLaunchIdle ==
    /\ cfg = ExampleConfig
    /\ req = ExampleRange
    /\ applied = "no"
    /\ issued = NoLaunch
    /\ built = 0
    /\ nodes = << >>
    /\ replayed = 0
    /\ stream = << >>
    /\ running = NoLaunch
    /\ threads = << >>
    /\ calls = EmptyBag

\* the scalars of one run are all DeviceVar<T> or all var_base<T, Allocator>
InitScalar ==
    /\ InitLaunchIdle
    /\ \E cls \in {"DeviceVar", "var_base"} :
          vars_ = [s \in Slots |-> [cls |-> cls, st |-> "unborn", ptr |-> Null]]
    /\ heap = << >>
    /\ written = [s \in Slots |-> NoValue]
    /\ lastRead = NoRead
    /\ gvTrace = << >>

NextScalar ==
    \/ DeviceVarDefault
    \/ DeviceVarFromValue
    \/ DeviceVarCopyCtor
    \/ DeviceVarCopyAssign
    \/ DeviceVarAssignView
    \/ DeviceVarAssignValue
    \/ DeviceVarMoveCtor
    \/ DeviceVarRead
    \/ DeviceVarDestroy
    \/ VarBaseDefault
    \/ VarBaseFromValue
    \/ VarBaseCopyCtor
    \/ VarBaseCopyAssign
    \/ VarBaseAssignValue
    \/ VarBaseRead
    \/ VarBaseDestroy

SpecScalar == InitScalar /\ [][NextScalar]_vars

\* ----------------------------------------------- claims: device scalar
\* C7: reading a device scalar back to a host value returns the value most
\* recently written through it (construction from a value, assignment,
\* copy-assignment), never an older one and never one written through a
\* different scalar.
C7_ReadsLastWritten ==
    \A s \in Slots :
        (Live(s) /\ vars_[s].ptr # Null /\ written[s] # NoValue)
        => Load(heap, vars_[s].ptr) = {written[s]}

\* C8: every live scalar that was not moved from owns exactly one allocation
\* no other scalar owns, a moved-from scalar owns none, and every allocation
\* is released exactly once: never twice, and never left without an owner.
C8_ExclusiveOwnership ==
    /\ \A s \in Slots :
          (Live(s) /\ vars_[s].ptr # Null)
          => /\ heap[vars_[s].ptr].live
             /\ \A o \in Slots \ {s} : Live(o) => vars_[o].ptr # vars_[s].ptr
    /\ \A p \in 1..Len(heap) :
          /\ heap[p].frees <= 1
          /\ heap[p].live => \E s \in Slots : Live(s) /\ vars_[s].ptr = p

\* ------------------------------------------- nested-graph launch trampoline
Streams ==
    {"cudaStreamGraphTailLaunch", "cudaStreamGraphFireAndForget",
     "cudaStreamLegacy", "userStream"}

\* what cudaGraphLaunch(m_graph, stream) can return
LaunchResults == {"cudaSuccess", "cudaErrorInvalidValue"}

\* MUDA_KERNEL_ASSERT(cond, ...): a false condition is the fatal
\* launch-context error, and the execution unit goes no further
KernelAssertFails(cond) == ~cond

\* MUDA_KERNEL_ERROR_WITH_LOCATION(...): the launch error is reported with
\* the graph's identity and the runtime's error string and code
KernelErrorReported(code) == code # "cudaSuccess"

\* launch asserting the tail-launch stream only
launchTailOnly(strm, device, result) ==
    IF device /\ KernelAssertFails(strm = "cudaStreamGraphTailLaunch")
    THEN [stream |-> strm, device |-> device, result |-> "none",
          contextError |-> TRUE, launched |-> FALSE, reported |-> FALSE]
    ELSE [stream |-> strm, device |-> device, result |-> result,
          contextError |-> FALSE, launched |-> TRUE,
          reported |-> KernelErrorReported(result)]

\* void GraphViewer::launch(cudaStream_t stream) const; device: compiled
\* with __CUDA_ARCH__; result: what cudaGraphLaunch returns when called
launch(strm, device, result) ==
    IF device /\ KernelAssertFails(strm = "cudaStreamGraphTailLaunch"
                                   \/ strm = "cudaStreamGraphFireAndForget")
    THEN [stream |-> strm, device |-> device, result |-> "none",
          contextError |-> TRUE, launched |-> FALSE, reported |-> FALSE]
    ELSE [stream |-> strm, device |-> device, result |-> result,
          contextError |-> FALSE, launched |-> TRUE,
          reported |-> KernelErrorReported(result)]

GraphViewerLaunch ==
    /\ Len(gvTrace) < MaxLaunches
    /\ \E strm \in Streams, device \in BOOLEAN, result \in LaunchResults :
          gvTrace' = Append(gvTrace, launch(strm, device, result))
    /\ UNCHANGED <<launchVars, scalarVars>>

\* void GraphViewer::tail_launch() const, in accelerator code
GraphViewerTailLaunch ==
    /\ Len(gvTrace) < MaxLaunches
    /\ \E result \in LaunchResults :
          gvTrace' = Append(gvTrace,
                            launch("cudaStreamGraphTailLaunch", TRUE, result))
    /\ UNCHANGED <<launchVars, scalarVars>>

\* void GraphViewer::fire_and_forget() const, in accelerator code
GraphViewerFireAndForget ==
    /\ Len(gvTrace) < MaxLaunches
    /\ \E result \in LaunchResults :
          gvTrace' = Append(gvTrace,
                            launch("cudaStreamGraphFireAndForget", TRUE, result))
    /\ UNCHANGED <<launchVars, scalarVars>>

InitGraph ==
    /\ InitLaunchIdle
    /\ InitScalarIdle
    /\ gvTrace = << >>

NextGraph ==
    \/ GraphViewerLaunch
    \/ GraphViewerTailLaunch
    \/ GraphViewerFireAndForget

SpecGraph == InitGraph /\ [][NextGraph]_vars

\* ---------------------------------------- claims: nested-graph launch
LegalContexts == {"cudaStreamGraphTailLaunch", "cudaStreamGraphFireAndForget"}

\* C9: a launch from accelerator code with a stream that is neither the
\* tail-launch nor the fire-and-forget context always signals the
\* launch-context error; a launch with a legal context never signals it and,
\* when the primitive returns success, reports nothing; a non-success return
\* of the primitive is always reported.
C9_LaunchContext ==
    \A n \in 1..Len(gvTrace) :
        LET e == gvTrace[n]
        IN  /\ (e.device /\ e.stream \notin LegalContexts) => e.contextError
            /\ e.stream \in LegalContexts
               => /\ ~e.contextError
                  /\ e.launched
                  /\ e.result = "cudaSuccess" => ~e.reported
            /\ (e.launched /\ e.result # "cudaSuccess") => e.reported

C9_Witness ==
    /\ Len(gvTrace) = 2
    /\ gvTrace[1].device
    /\ gvTrace[1].stream = "userStream"
    /\ gvTrace[1].contextError
    /\ gvTrace[2].device
    /\ gvTrace[2].stream = "cudaStreamGraphFireAndForget"
    /\ gvTrace[2].result = "cudaSuccess"
    /\ ~gvTrace[2].contextError

====
